---------------------------- MODULE Spec2Model ----------------------------
(***************************************************************************)
(* A model of flatten_marker_output (src/src/main.rs): the text            *)
(* extraction, the flatten-and-filter engine, the output path resolution   *)
(* and the directory walker.                                               *)
(*                                                                         *)
(* Strings are sequences of one-character strings.  A file name is a       *)
(* sequence of tokens (<<"a", "_processed", ".json">> is a_processed.json) *)
(* and a path is a sequence of file names, from the filesystem root.       *)
(***************************************************************************)
EXTENDS Integers, Sequences, FiniteSets, TLC

VARIABLES
    pc,         \* the position of the run
    html_in,    \* extract_text_from_html: its argument
    text_out,   \* extract_text_from_html: its result
    blocks,     \* flatten_and_filter_blocks: its argument (document.children)
    result,     \* flatten_and_filter_blocks: its result
    input,              \* args.input
    output_arg,         \* args.output_dir: <<>> is None, <<dir>> is Some(dir)
    output_dir,         \* the batch run's output root
    fs,                 \* the regular files: path -> content
    dirs,               \* the directories
    uncanon,            \* the paths Path::canonicalize fails on
    input_files,        \* the files as they are when the run starts
    cursor,             \* the last entry the running glob iterator gave
    unprocessed_files,  \* Vec<UnprocessedFile>
    pdf_log,            \* stdout: "Processing PDF file: .. save to: .."
    json_log,           \* stdout: "Processing JSON file: .."
    written,            \* stdout: "Processed JSON saved to: .."
    resolved,           \* the destination resolved for each input
    errors              \* the Err(e) values the per-file steps produced

purevars == <<html_in, text_out, blocks, result>>
walkvars == <<input, output_arg, output_dir, fs, dirs, uncanon, input_files,
              cursor, unprocessed_files, pdf_log, json_log, written,
              resolved, errors>>
vars == <<pc, purevars, walkvars>>

(***************************************************************************)
(* Bounds of the model.                                                    *)
(***************************************************************************)
MaxLen == 6      \* longest html string given to extract_text_from_html
MaxNodes == 3    \* most nodes of a block tree given to the engine
MaxFiles == 2    \* most files under the input root when a run starts

(***************************************************************************)
(* Text extraction (main.rs 442-451).                                      *)
(***************************************************************************)
Chars == {"<", ">", "a", " "}

RECURSIVE StringsOf(_)
StringsOf(n) ==
    IF n = 0 THEN {<<>>}
    ELSE {<<c>> \o s : c \in Chars, s \in StringsOf(n - 1)}

Htmls == UNION {StringsOf(n) : n \in 0..MaxLen}

\* The regex with `<` shut out of a tag's inside: <[^<>]*>.
TagEndNoNesting(s) ==
    IF s # <<>> /\ Head(s) = "<"
          /\ \E j \in 2..Len(s) :
                /\ s[j] = ">"
                /\ \A k \in 2..(j - 1) : s[k] \notin {"<", ">"}
    THEN CHOOSE j \in 2..Len(s) :
            /\ s[j] = ">"
            /\ \A k \in 2..(j - 1) : s[k] \notin {"<", ">"}
    ELSE 0

\* Regex <[^>]*> tried at the head of s: the index of the `>` that ends the
\* match, or 0 when there is no match here.  [^>]* takes every character
\* that is not `>`, a further `<` included, so the match ends at the first
\* `>` after the opening `<`.
TagEnd(s) ==
    IF s # <<>> /\ Head(s) = "<" /\ \E j \in 2..Len(s) : s[j] = ">"
    THEN CHOOSE j \in 2..Len(s) :
            /\ s[j] = ">"
            /\ \A k \in 2..(j - 1) : s[k] # ">"
    ELSE 0

\* re.replace_all(html, " "): the leftmost matches, none overlapping, each
\* replaced by one space.
RECURSIVE replace_all(_)
replace_all(s) ==
    IF s = <<>> THEN <<>>
    ELSE LET e == TagEnd(s)
         IN  IF e > 0
             THEN <<" ">> \o replace_all(SubSeq(s, e + 1, Len(s)))
             ELSE <<Head(s)>> \o replace_all(Tail(s))

IsWhitespace(c) == c = " "

\* str::split_whitespace: the maximal runs of non-whitespace, in order.
RECURSIVE split_whitespace(_)
split_whitespace(s) ==
    IF s = <<>> THEN <<>>
    ELSE IF IsWhitespace(Head(s)) THEN split_whitespace(Tail(s))
    ELSE LET stop == IF \E j \in 1..Len(s) : IsWhitespace(s[j])
                     THEN CHOOSE j \in 1..Len(s) :
                             /\ IsWhitespace(s[j])
                             /\ \A k \in 1..(j - 1) : ~IsWhitespace(s[k])
                     ELSE Len(s) + 1
         IN  <<SubSeq(s, 1, stop - 1)>>
                 \o split_whitespace(SubSeq(s, stop, Len(s)))

\* [&str]::join(" ")
RECURSIVE join(_)
join(words) ==
    IF words = <<>> THEN <<>>
    ELSE IF Len(words) = 1 THEN words[1]
    ELSE words[1] \o <<" ">> \o join(Tail(words))

extract_text_from_html(html) == join(split_whitespace(replace_all(html)))

(***************************************************************************)
(* Block trees (main.rs 44-85).  children: None and Some(vec![]) are both  *)
(* the empty sequence; the engine treats them alike.  A node's id is its   *)
(* position in the tree, so ids are unique and tell the ancestors.         *)
(***************************************************************************)
BlockTypes == {"Page", "Header", "Footer", "PageHeader", "PageFooter",
               "Picture", "ListGroup", "SectionHeader", "Text"}

\* The markup a generated block carries.
SampleHtml(t) ==
    IF t = "Page" THEN <<>> ELSE <<"<", ">", "a">>

\* The shapes of block trees of exactly n nodes: a sequence of nodes, each
\* node standing for the sequence of its children.
RECURSIVE ShapesOf(_)
ShapesOf(n) ==
    IF n = 0 THEN {<<>>}
    ELSE UNION {
           {<<c>> \o rest : c \in ShapesOf(k), rest \in ShapesOf(n - 1 - k)}
           : k \in 0..(n - 1)}

\* The positions of a shape's nodes; a node's position serves as its id.
RECURSIVE PlacesOf(_, _, _)
PlacesOf(shape, prefix, from) ==
    IF shape = <<>> THEN {}
    ELSE {prefix \o <<from>>}
           \cup PlacesOf(Head(shape), prefix \o <<from>>, 1)
           \cup PlacesOf(Tail(shape), prefix, from + 1)

\* The Block values (main.rs 44-64) of a shape whose nodes have the given
\* types.
RECURSIVE WithIds(_, _, _, _)
WithIds(shape, types, prefix, from) ==
    IF shape = <<>> THEN <<>>
    ELSE <<[id |-> prefix \o <<from>>,
            block_type |-> types[prefix \o <<from>>],
            html |-> SampleHtml(types[prefix \o <<from>>]),
            text |-> <<>>,
            children |-> WithIds(Head(shape), types, prefix \o <<from>>, 1)]>>
         \o WithIds(Tail(shape), types, prefix, from + 1)

\* main.rs 408: the one type treated as a container.
IsPageOrText(t) == t \in {"Page", "Text"}
NothingIsPage(t) == FALSE
IsPage(t) == t = "Page"

\* main.rs 415-418: the types dropped without a record.
IsFilteredButPicture(t) == t \in {"PageHeader", "PageFooter", "ListGroup"}
IsFiltered(t) == t \in {"PageHeader", "PageFooter", "Picture", "ListGroup"}

\* main.rs 423-433: the record pushed for a kept block.
filtered_block(block) ==
    [id |-> block.id,
     block_type |-> block.block_type,
     html |-> block.html,
     text |-> extract_text_from_html(block.html),
     children |-> <<>>]

RECURSIVE flatten_and_filter_blocks(_)
flatten_and_filter_blocks(bs) ==
    IF bs = <<>> THEN <<>>
    ELSE LET block == Head(bs)
             rest == flatten_and_filter_blocks(Tail(bs))
         IN  IF IsPage(block.block_type)
             THEN flatten_and_filter_blocks(block.children) \o rest
             ELSE IF ~IsFiltered(block.block_type)
                  THEN <<filtered_block(block)>> \o rest
                  ELSE rest

(***************************************************************************)
(* Paths (std::path).  A name is a sequence of tokens, its extension the   *)
(* last token when that is a dotted suffix after a non-empty stem.         *)
(***************************************************************************)
TokenOrder == <<".git", ".json", ".pdf", ".txt", "_processed", "a", "b",
                "in", "n", "out", "output", "sub", "target">>
ExtTokens == {".json", ".pdf", ".txt"}

Last(s) == s[Len(s)]
ButLast(s) == SubSeq(s, 1, Len(s) - 1)

\* Path::file_name, Path::parent, Path::join, Path::starts_with,
\* Path::strip_prefix
file_name(path) == IF path = <<>> THEN <<>> ELSE Last(path)
parent(path) == IF path = <<>> THEN <<>> ELSE ButLast(path)
path_join(dir, rel) == dir \o rel
starts_with(path, base) ==
    Len(base) <= Len(path) /\ SubSeq(path, 1, Len(base)) = base
strip_prefix(path, base) == SubSeq(path, Len(base) + 1, Len(path))

\* Path::extension: "" is None.
extension(path) ==
    LET name == file_name(path)
    IN  IF Len(name) >= 2 /\ Last(name) \in ExtTokens THEN Last(name) ELSE ""

\* Path::file_stem, with unwrap_or("output")
file_stem(path) ==
    LET name == file_name(path)
    IN  IF name = <<>> THEN <<"output">>
        ELSE IF extension(path) # "" THEN ButLast(name) ELSE name

\* format!("{}_processed.{}", file_name, extension)
processed_name(stem, ext) == stem \o <<"_processed", ext>>

\* to_string_lossy().contains("_processed"), dropped
never_processed(path) == FALSE
\* path.to_string_lossy().contains("_processed"): anywhere in the path.
contains_processed(path) ==
    \E i \in DOMAIN path : \E k \in DOMAIN path[i] : path[i][k] = "_processed"

\* path.to_string_lossy().contains("/target/") || ..contains("/.git/"):
\* a whole component that is not the last one.
contains_segment(path) ==
    \E i \in 1..(Len(path) - 1) : path[i] \in {<<"target">>, <<".git">>}

\* The order glob yields paths in: by name, component after component.
TokRank(t) == CHOOSE i \in DOMAIN TokenOrder : TokenOrder[i] = t
NameLess(a, b) ==
    \/ Len(a) < Len(b) /\ SubSeq(b, 1, Len(a)) = a
    \/ \E k \in 1..Len(a) :
          /\ k <= Len(b)
          /\ SubSeq(a, 1, k - 1) = SubSeq(b, 1, k - 1)
          /\ TokRank(a[k]) < TokRank(b[k])
PathLess(p, q) ==
    \/ Len(p) < Len(q) /\ SubSeq(q, 1, Len(p)) = p
    \/ \E k \in 1..Len(p) :
          /\ k <= Len(q)
          /\ SubSeq(p, 1, k - 1) = SubSeq(q, 1, k - 1)
          /\ NameLess(p[k], q[k])

(***************************************************************************)
(* The filesystem a run starts on.                                         *)
(***************************************************************************)
\* canonical_input_dir (main.rs 262)
Root == << <<"in">> >>

\* The files that may lie under the input root, relative to it.
Candidates ==
    { << <<"a", ".json">> >>,
      << <<"b", ".json">> >>,
      << <<"a", ".pdf">> >>,
      << <<"n", ".txt">> >>,
      << <<"a", "_processed", ".json">> >>,
      << <<"n", "_processed", ".txt">> >>,
      << <<"a", "_processed", ".pdf">> >>,
      << <<"target">>, <<"a", ".json">> >>,
      << <<".git">>, <<"a", ".pdf">> >>,
      << <<"sub">>, <<"target">>, <<"a", ".json">> >>,
      << <<"sub", "_processed">>, <<"a", ".json">> >> }

\* The document a well-formed input holds.
SampleDocument ==
    WithIds(<< << << <<>> >>, <<>>, <<>> >> >>,
            (<<1>> :> "Page") @@ (<<1, 1>> :> "SectionHeader")
               @@ (<<1, 1, 1>> :> "Text") @@ (<<1, 2>> :> "Picture")
               @@ (<<1, 3>> :> "Text"),
            <<>>, 1)

Content(kind, body) == [kind |-> kind, body |-> body]

ContentsFor(path) ==
    IF extension(path) = ".json"
    THEN {Content("document", SampleDocument), Content("garbage", <<>>)}
    ELSE {Content("other", <<>>)}

FileSets ==
    {S \in SUBSET {path_join(Root, c) : c \in Candidates} :
        Cardinality(S) <= MaxFiles}

InitialFs ==
    UNION {{f \in [S -> UNION {ContentsFor(p) : p \in S}] :
               \A p \in S : f[p] \in ContentsFor(p)} : S \in FileSets}

Prefixes(path) == {SubSeq(path, 1, k) : k \in 0..Len(path)}

\* args.output_dir
OutputArgs == {<<>>, <<Root>>, <<path_join(Root, << <<"out">> >>)>>}

\* A path that names nothing.
Missing == << <<"n">> >>

(***************************************************************************)
(* File operations.  io is what the filesystem does to the step:           *)
(* "ok", or the operation that fails.                                      *)
(***************************************************************************)
Outcomes == {"ok", "read", "mkdir", "create", "write"}

\* serde_json::from_str::<Document> (main.rs 150, 182)
ParsesAsDocument(content) == content.kind = "document"

\* fs::create_dir_all(dir): Ok when the directory is there already.
MkdirFails(dir, io) == dir \notin dirs /\ io = "mkdir"

\* File::create and write_all (main.rs 164-166, 211-213): the files after
\* the step.  A failed write_all leaves the created file behind.
AfterWrite(dest, body, io) ==
    IF io = "create" THEN fs
    ELSE [p \in DOMAIN fs \cup {dest} |->
            IF p = dest
            THEN IF io = "write" THEN Content("truncated", <<>>)
                 ELSE Content("array", body)
            ELSE fs[p]]

\* The first failure of reading and parsing input_path, "" when none.
ReadError(input_path, io) ==
    IF io = "read" \/ input_path \notin DOMAIN fs THEN "read"
    ELSE IF ~ParsesAsDocument(fs[input_path]) THEN "schema"
    ELSE ""

WriteError(io) == IF io \in {"create", "write"} THEN io ELSE ""

(***************************************************************************)
(* Output path resolution (main.rs 453-488) and the single-file mode.      *)
(***************************************************************************)
\* determine_output_path's Ok value.
determine_output_path(input_path, out, ext) ==
    IF out # <<>>
    THEN path_join(out[1], <<processed_name(file_stem(input_path), ext)>>)
    ELSE path_join(parent(input_path),
                   <<processed_name(file_stem(input_path), ext)>>)

\* process_json_file_with_output_path's final_output_path (main.rs 192-203)
final_output_path(output_path) ==
    path_join(parent(output_path),
              <<processed_name(file_stem(output_path), ".json")>>)

\* main (main.rs 94-138)
Main ==
    /\ pc = "main"
    /\ IF input \in DOMAIN fs
       THEN /\ pc' = IF extension(input) = ".json"
                     THEN "process_json_file" ELSE "process_pdf_file"
            /\ UNCHANGED output_dir
       ELSE IF input \in dirs
       THEN /\ output_dir' =
                 IF output_arg # <<>> THEN output_arg[1]
                 ELSE path_join(parent(input),
                                <<file_name(input) \o <<"_processed">>>>)
            /\ pc' = "walk"
       ELSE /\ pc' = "exit_1"
            /\ UNCHANGED output_dir
    /\ UNCHANGED <<purevars, input, output_arg, fs, dirs, uncanon,
                   input_files, cursor, unprocessed_files, pdf_log, json_log,
                   written, resolved, errors>>

\* process_json_file (main.rs 140-170); main exits with 1 on Err.
ProcessJsonFile ==
    /\ pc = "process_json_file"
    /\ \E io \in Outcomes :
          LET rerr == ReadError(input, io)
              dest == determine_output_path(input, output_arg, ".json")
              body == flatten_and_filter_blocks(fs[input].body)
          IN  /\ json_log' = Append(json_log, input)
              /\ IF rerr # ""
                 THEN /\ errors' = Append(errors, [path |-> input, what |-> rerr])
                      /\ pc' = "exit_1"
                      /\ UNCHANGED <<fs, dirs, written, resolved>>
                 ELSE IF output_arg # <<>> /\ MkdirFails(output_arg[1], io)
                 THEN /\ errors' = Append(errors, [path |-> input, what |-> "mkdir"])
                      /\ pc' = "exit_1"
                      /\ UNCHANGED <<fs, dirs, written, resolved>>
                 ELSE /\ dirs' = IF output_arg # <<>>
                                 THEN dirs \cup Prefixes(output_arg[1]) ELSE dirs
                      /\ resolved' = resolved \cup {[input |-> input, dest |-> dest]}
                      /\ fs' = AfterWrite(dest, body, io)
                      /\ IF WriteError(io) # ""
                         THEN /\ errors' = Append(errors,
                                      [path |-> input, what |-> WriteError(io)])
                              /\ pc' = "exit_1"
                              /\ UNCHANGED written
                         ELSE /\ written' = Append(written, dest)
                              /\ pc' = "done"
                              /\ UNCHANGED errors
    /\ UNCHANGED <<purevars, input, output_arg, output_dir, uncanon,
                   input_files, cursor, unprocessed_files, pdf_log>>

\* process_pdf_file (main.rs 219-234): prints, resolves and writes nothing.
ProcessPdfFile ==
    /\ pc = "process_pdf_file"
    /\ pdf_log' = Append(pdf_log, [input |-> input, output |-> <<>>])
    /\ pc' = "done"
    /\ UNCHANGED <<purevars, input, output_arg, output_dir, fs, dirs, uncanon,
                   input_files, cursor, unprocessed_files, json_log, written,
                   resolved, errors>>

(***************************************************************************)
(* The directory walker (main.rs 253-401).  Every directory below the root *)
(* can be read: glob yields paths only, no GlobError (the Err arms at      *)
(* main.rs 308, 349 and 391 are not taken).                                *)
(***************************************************************************)
\* main.rs 265-266
target_dir == path_join(Root, << <<"target">> >>)
git_dir == path_join(Root, << <<".git">> >>)

\* The closure with the .git test left out.
is_excluded_path_target_only(path) ==
    IF path \notin uncanon
    THEN starts_with(path, target_dir)
    ELSE contains_segment(path)

\* The closure is_excluded_path (main.rs 269-277).  No symbolic links are
\* modelled: a path that canonicalizes canonicalizes to itself.
is_excluded_path(path) ==
    IF path \notin uncanon
    THEN starts_with(path, target_dir) \/ starts_with(path, git_dir)
    ELSE contains_segment(path)

\* glob("{root}/**/*{suffix}"): what the pattern matches below the root;
\* suffix "" is the pattern **/*.
GlobMatches(suffix) ==
    {p \in DOMAIN fs \cup dirs :
        /\ starts_with(p, Root)
        /\ Len(p) > Len(Root)
        /\ suffix # "" => Last(file_name(p)) = suffix}

\* The entries the iterator has yet to give, and the next of them.  The
\* iterator reads the tree as it goes, so a file written ahead of it is found.
Pending(suffix) == {p \in GlobMatches(suffix) : PathLess(cursor, p)}
NextEntry(suffix) ==
    CHOOSE p \in Pending(suffix) :
        \A q \in Pending(suffix) : q = p \/ PathLess(p, q)

\* canonicalize()? of the input directory (main.rs 262)
StartWalk ==
    /\ pc = "walk"
    /\ IF input \in uncanon
       THEN /\ pc' = "failed"
            /\ errors' = Append(errors, [path |-> input, what |-> "walk"])
       ELSE /\ pc' = "pdf"
            /\ UNCHANGED errors
    /\ UNCHANGED <<purevars, input, output_arg, output_dir, fs, dirs, uncanon,
                   input_files, cursor, unprocessed_files, pdf_log, json_log,
                   written, resolved>>

\* One turn of the loop over **/*.pdf (main.rs 281-315).
PdfEntry ==
    /\ pc = "pdf"
    /\ Pending(".pdf") # {}
    /\ LET path == NextEntry(".pdf")
           output_path == path_join(output_dir, strip_prefix(path, Root))
       IN  /\ cursor' = path
           /\ \E io \in {"ok", "mkdir"} :
                IF is_excluded_path(path) \/ ~starts_with(path, Root)
                THEN UNCHANGED <<pc, dirs, pdf_log, resolved, errors>>
                ELSE IF MkdirFails(parent(output_path), io)
                THEN /\ pc' = "failed"
                     /\ errors' = Append(errors, [path |-> path, what |-> "mkdir"])
                     /\ UNCHANGED <<dirs, pdf_log, resolved>>
                ELSE /\ dirs' = dirs \cup Prefixes(parent(output_path))
                     /\ pdf_log' = Append(pdf_log,
                                      [input |-> path, output |-> output_path])
                     /\ resolved' = resolved \cup
                                      {[input |-> path, dest |-> output_path]}
                     /\ UNCHANGED <<pc, errors>>
    /\ UNCHANGED <<purevars, input, output_arg, output_dir, fs, uncanon,
                   input_files, unprocessed_files, json_log, written>>

PdfGlobEnd ==
    /\ pc = "pdf"
    /\ Pending(".pdf") = {}
    /\ pc' = "json"
    /\ cursor' = <<>>
    /\ UNCHANGED <<purevars, input, output_arg, output_dir, fs, dirs, uncanon,
                   input_files, unprocessed_files, pdf_log, json_log, written,
                   resolved, errors>>

\* The reason main.rs 185 and the ? operators give for an error.
Reason(what) ==
    IF what = "schema" THEN "Invalid JSON schema" ELSE "io error"

\* An error that is dropped instead of recorded.
swallow_error(list, path, err) == list
\* if let Err(e) = .. { unprocessed_files.push(..) } (main.rs 340-345)
push_unprocessed(list, path, err) ==
    IF err = "" THEN list
    ELSE Append(list, [path |-> path, reason |-> Reason(err)])

\* One turn of the loop over **/*.json (main.rs 319-356), with
\* process_json_file_with_output_path (main.rs 172-217).
JsonEntry ==
    /\ pc = "json"
    /\ Pending(".json") # {}
    /\ LET path == NextEntry(".json")
           output_path == path_join(output_dir, strip_prefix(path, Root))
           final == final_output_path(output_path)
           made == dirs \cup Prefixes(parent(output_path))
       IN  /\ cursor' = path
           /\ \E io \in Outcomes :
                IF \/ is_excluded_path(path)
                   \/ contains_processed(path)
                   \/ ~starts_with(path, Root)
                THEN UNCHANGED <<pc, fs, dirs, unprocessed_files, json_log,
                                 written, resolved, errors>>
                ELSE IF MkdirFails(parent(output_path), io)
                THEN /\ pc' = "failed"
                     /\ errors' = Append(errors, [path |-> path, what |-> "mkdir"])
                     /\ UNCHANGED <<fs, dirs, unprocessed_files, json_log,
                                    written, resolved>>
                ELSE LET rerr == ReadError(path, io)
                         merr == IF parent(final) \notin made /\ io = "mkdir"
                                 THEN "mkdir" ELSE ""
                         err == IF rerr # "" THEN rerr
                                ELSE IF merr # "" THEN merr
                                ELSE WriteError(io)
                     IN  /\ dirs' = made
                         /\ json_log' = Append(json_log, path)
                         /\ resolved' = IF rerr = ""
                                        THEN resolved \cup
                                               {[input |-> path, dest |-> final]}
                                        ELSE resolved
                         /\ fs' = IF rerr = "" /\ merr = ""
                                  THEN AfterWrite(final,
                                         flatten_and_filter_blocks(fs[path].body), io)
                                  ELSE fs
                         /\ written' = IF err = "" THEN Append(written, final)
                                       ELSE written
                         /\ errors' = IF err = "" THEN errors
                                      ELSE Append(errors,
                                             [path |-> path, what |-> err])
                         /\ unprocessed_files' =
                               push_unprocessed(unprocessed_files, path, err)
                         /\ UNCHANGED pc
    /\ UNCHANGED <<purevars, input, output_arg, output_dir, uncanon,
                   input_files, pdf_log>>

JsonGlobEnd ==
    /\ pc = "json"
    /\ Pending(".json") = {}
    /\ pc' = "other"
    /\ cursor' = <<>>
    /\ UNCHANGED <<purevars, input, output_arg, output_dir, fs, dirs, uncanon,
                   input_files, unprocessed_files, pdf_log, json_log, written,
                   resolved, errors>>

\* The extension test with json left out.
already_handled_pdf_only(path) == extension(path) = ".pdf"
\* ext == "pdf" || ext == "json" (main.rs 374-378)
already_handled(path) == extension(path) \in {".pdf", ".json"}

\* One turn of the loop over **/* (main.rs 360-398).
OtherEntry ==
    /\ pc = "other"
    /\ Pending("") # {}
    /\ LET path == NextEntry("")
       IN  /\ cursor' = path
           /\ IF \/ path \in dirs
                 \/ is_excluded_path(path)
                 \/ already_handled(path)
                 \/ contains_processed(path)
              THEN UNCHANGED unprocessed_files
              ELSE unprocessed_files' =
                      Append(unprocessed_files,
                             [path |-> path, reason |-> "Unsupported file type"])
    /\ UNCHANGED <<pc, purevars, input, output_arg, output_dir, fs, dirs,
                   uncanon, input_files, pdf_log, json_log, written, resolved,
                   errors>>

\* Ok(unprocessed_files) (main.rs 400)
OtherGlobEnd ==
    /\ pc = "other"
    /\ Pending("") = {}
    /\ pc' = "done"
    /\ UNCHANGED <<purevars, input, output_arg, output_dir, fs, dirs, uncanon,
                   input_files, cursor, unprocessed_files, pdf_log, json_log,
                   written, resolved, errors>>

(***************************************************************************)
(* The tool: main on an input path.                                        *)
(***************************************************************************)
Idle ==
    /\ input = <<>>
    /\ output_arg = <<>>
    /\ output_dir = <<>>
    /\ fs = <<>>
    /\ dirs = {}
    /\ uncanon = {}
    /\ input_files = <<>>
    /\ cursor = <<>>
    /\ unprocessed_files = <<>>
    /\ pdf_log = <<>>
    /\ json_log = <<>>
    /\ written = <<>>
    /\ resolved = {}
    /\ errors = <<>>

Init ==
    /\ pc = "main"
    /\ html_in = <<>>
    /\ text_out = <<>>
    /\ blocks = <<>>
    /\ result = <<>>
    /\ fs \in InitialFs
    /\ input \in {Root, Missing} \cup DOMAIN fs
    /\ output_arg \in OutputArgs
    /\ output_dir = <<>>
    /\ dirs = Prefixes(Root) \cup UNION {Prefixes(parent(p)) : p \in DOMAIN fs}
    /\ uncanon \in IF input = Root
                   THEN {{}} \cup {{p} : p \in DOMAIN fs \cup {Root}}
                   ELSE {{}}
    /\ input_files = fs
    /\ cursor = <<>>
    /\ unprocessed_files = <<>>
    /\ pdf_log = <<>>
    /\ json_log = <<>>
    /\ written = <<>>
    /\ resolved = {}
    /\ errors = <<>>

Next ==
    \/ Main
    \/ ProcessJsonFile
    \/ ProcessPdfFile
    \/ StartWalk
    \/ PdfEntry
    \/ PdfGlobEnd
    \/ JsonEntry
    \/ JsonGlobEnd
    \/ OtherEntry
    \/ OtherGlobEnd

Spec == Init /\ [][Next]_vars

(***************************************************************************)
(* Specifications of the two pure functions.                               *)
(***************************************************************************)
InitExtract ==
    /\ pc = "extract"
    /\ html_in \in Htmls
    /\ text_out = <<>>
    /\ blocks = <<>>
    /\ result = <<>>
    /\ Idle

Extract ==
    /\ pc = "extract"
    /\ text_out' = extract_text_from_html(html_in)
    /\ pc' = "extracted"
    /\ UNCHANGED <<html_in, blocks, result, walkvars>>

NextExtract == Extract

SpecExtract == InitExtract /\ [][NextExtract]_vars

InitFlatten ==
    /\ pc = "flatten"
    /\ \E n \in 0..MaxNodes : \E shape \in ShapesOf(n) :
          \E types \in [PlacesOf(shape, <<>>, 1) -> BlockTypes] :
             blocks = WithIds(shape, types, <<>>, 1)
    /\ result = <<>>
    /\ html_in = <<>>
    /\ text_out = <<>>
    /\ Idle

Flatten ==
    /\ pc = "flatten"
    /\ result' = flatten_and_filter_blocks(blocks)
    /\ pc' = "flattened"
    /\ UNCHANGED <<html_in, text_out, blocks, walkvars>>

NextFlatten == Flatten

SpecFlatten == InitFlatten /\ [][NextFlatten]_vars

(***************************************************************************)
(* Terms the claims about the two pure functions are stated in.            *)
(***************************************************************************)
\* The exclusion set as the specification lists it, and its fully pruned part.
ExclusionSet == {"Page", "Header", "Footer", "PageHeader", "PageFooter",
                 "Picture", "ListGroup"}
PrunedTypes == ExclusionSet \ {"Page"}
\* The types main.rs 408-418 names.
NamedInCode == {"Page", "PageHeader", "PageFooter", "Picture", "ListGroup"}

RECURSIVE NodesOf(_)
NodesOf(forest) ==
    IF forest = <<>> THEN {}
    ELSE {Head(forest)} \cup NodesOf(Head(forest).children)
            \cup NodesOf(Tail(forest))

IsProperPrefix(a, b) == Len(a) < Len(b) /\ SubSeq(b, 1, Len(a)) = a

Ancestors(n) == {a \in NodesOf(blocks) : IsProperPrefix(a.id, n.id)}

\* Every ancestor is a Page: the engine's recursion gets to the node.
UnderPagesOnly(n) == \A a \in Ancestors(n) : a.block_type = "Page"

Count(id) == Cardinality({i \in DOMAIN result : result[i].id = id})

PosOf(id) == CHOOSE i \in DOMAIN result : result[i].id = id

IdsOf(records) == [i \in DOMAIN records |-> records[i].id]

\* Pre-order on ids: the lexicographic order of the positions.
LexLess(a, b) ==
    \/ IsProperPrefix(a, b)
    \/ \E k \in 1..Len(a) :
          /\ k <= Len(b)
          /\ SubSeq(a, 1, k - 1) = SubSeq(b, 1, k - 1)
          /\ a[k] < b[k]

\* The ids the specification's traversal emits for a forest: a Page is
\* transparent, a pruned type drops its subtree, every other node is
\* followed by the emissions of its children.
RECURSIVE ClaimedEmissions(_)
ClaimedEmissions(forest) ==
    IF forest = <<>> THEN <<>>
    ELSE LET b == Head(forest)
             rest == ClaimedEmissions(Tail(forest))
         IN  IF b.block_type = "Page"
             THEN ClaimedEmissions(b.children) \o rest
             ELSE IF b.block_type \in PrunedTypes THEN rest
             ELSE <<b.id>> \o ClaimedEmissions(b.children) \o rest

(***************************************************************************)
(* C8.  Whatever the input string, the result of extract_text_from_html    *)
(* holds no `<` with a `>` anywhere after it.                              *)
(***************************************************************************)
C8_NoTagLikeSpan ==
    pc = "extracted" =>
        \A i, j \in DOMAIN text_out :
            i < j => ~(text_out[i] = "<" /\ text_out[j] = ">")

\* The nested input <<a>> has been stripped to the lone `>`.
C8_Witness ==
    /\ pc = "extracted"
    /\ html_in = <<"<", "<", "a", ">", ">">>
    /\ text_out = <<">">>

(***************************************************************************)
(* C1 as claimed.  Every node whose type is outside the exclusion set and  *)
(* that is not below a pruned node is emitted exactly once, and its record *)
(* is immediately followed by the emissions of its own children.           *)
(***************************************************************************)
C1_AsClaimed ==
    pc = "flattened" =>
        \A n \in NodesOf(blocks) :
            (/\ n.block_type \notin ExclusionSet
             /\ \A a \in Ancestors(n) : a.block_type \notin PrunedTypes)
            => /\ Count(n.id) = 1
               /\ LET i == PosOf(n.id)
                      ce == ClaimedEmissions(n.children)
                  IN  /\ i + Len(ce) <= Len(result)
                      /\ SubSeq(IdsOf(result), i + 1, i + Len(ce)) = ce

(***************************************************************************)
(* C1 as amended.  Every node whose type is outside the exclusion set and  *)
(* whose ancestors are all Page nodes is emitted exactly once; no node     *)
(* with an ancestor that is not a Page is emitted (the children of a       *)
(* content node are dropped with its children field); the records are in   *)
(* pre-order.                                                              *)
(***************************************************************************)
C1_EmittedOnceUnderPages ==
    pc = "flattened" =>
        /\ \A n \in NodesOf(blocks) :
              /\ (n.block_type \notin ExclusionSet /\ UnderPagesOnly(n))
                    => Count(n.id) = 1
              /\ ~UnderPagesOnly(n) => Count(n.id) = 0
        /\ \A i, j \in DOMAIN result :
              i < j => LexLess(result[i].id, result[j].id)

\* A SectionHeader inside a Page is emitted and its nested Text is not.
C1_Witness ==
    /\ pc = "flattened"
    /\ \E n \in NodesOf(blocks) :
          /\ n.block_type = "SectionHeader"
          /\ Ancestors(n) # {}
          /\ UnderPagesOnly(n)
          /\ n.children # <<>>
          /\ n.children[1].block_type = "Text"
          /\ Count(n.id) = 1
          /\ Count(n.children[1].id) = 0

(***************************************************************************)
(* C2 as claimed.  The flattened sequence holds no record of type Page,    *)
(* Header, Footer, PageHeader, PageFooter, Picture or ListGroup.           *)
(***************************************************************************)
C2_AsClaimed ==
    pc = "flattened" =>
        \A i \in DOMAIN result : result[i].block_type \notin ExclusionSet

(***************************************************************************)
(* C2 as amended.  The flattened sequence holds no record of type Page,    *)
(* PageHeader, PageFooter, Picture or ListGroup.                           *)
(***************************************************************************)
C2_NoNamedTypeEmitted ==
    pc = "flattened" =>
        \A i \in DOMAIN result : result[i].block_type \notin NamedInCode

\* A Picture and a Text side by side in a Page: only the Text is emitted.
C2_Witness ==
    /\ pc = "flattened"
    /\ Len(blocks) = 1
    /\ blocks[1].block_type = "Page"
    /\ Len(blocks[1].children) = 2
    /\ blocks[1].children[1].block_type = "Picture"
    /\ blocks[1].children[2].block_type = "Text"
    /\ IdsOf(result) = <<blocks[1].children[2].id>>

(***************************************************************************)
(* C5 as claimed.  No Page appears in the output, every content-typed      *)
(* child of a Page, wherever the Page occurs, appears in the output, and   *)
(* the children of one Page appear in their input order.                   *)
(***************************************************************************)
C5_AsClaimed ==
    pc = "flattened" =>
        /\ \A i \in DOMAIN result : result[i].block_type # "Page"
        /\ \A p \in NodesOf(blocks) :
              p.block_type = "Page" =>
                 /\ \A k \in DOMAIN p.children :
                       p.children[k].block_type \notin ExclusionSet
                          => Count(p.children[k].id) >= 1
                 /\ \A k, l \in DOMAIN p.children :
                       (/\ k < l
                        /\ Count(p.children[k].id) >= 1
                        /\ Count(p.children[l].id) >= 1)
                       => PosOf(p.children[k].id) < PosOf(p.children[l].id)

(***************************************************************************)
(* C5 as amended.  No Page appears in the output, every content-typed      *)
(* child of a Page whose own ancestors are all Pages appears in the        *)
(* output, and the children of one such Page appear in their input order.  *)
(***************************************************************************)
C5_PageTransparentUnderPages ==
    pc = "flattened" =>
        /\ \A i \in DOMAIN result : result[i].block_type # "Page"
        /\ \A p \in NodesOf(blocks) :
              (p.block_type = "Page" /\ UnderPagesOnly(p)) =>
                 /\ \A k \in DOMAIN p.children :
                       p.children[k].block_type \notin ExclusionSet
                          => Count(p.children[k].id) >= 1
                 /\ \A k, l \in DOMAIN p.children :
                       (/\ k < l
                        /\ Count(p.children[k].id) >= 1
                        /\ Count(p.children[l].id) >= 1)
                       => PosOf(p.children[k].id) < PosOf(p.children[l].id)

\* A Page nested in a Page, its Text child emitted.
C5_WitnessNested ==
    /\ pc = "flattened"
    /\ \E p \in NodesOf(blocks) :
          /\ p.block_type = "Page"
          /\ Len(p.id) = 2
          /\ UnderPagesOnly(p)
          /\ p.children # <<>>
          /\ p.children[1].block_type = "Text"
          /\ Count(p.children[1].id) = 1

(***************************************************************************)
(* Terms the claims about a batch run are stated in.                       *)
(***************************************************************************)
BatchMode == input = Root

\* Below a target or .git directory at any depth under the input root.
BelowTargetOrGit(f) ==
    /\ starts_with(f, Root)
    /\ \E i \in (Len(Root) + 1)..(Len(f) - 1) : f[i] \in {<<"target">>, <<".git">>}

\* Below the target or .git directory that lies directly in the input root.
BelowRootTargetOrGit(f) ==
    /\ starts_with(f, Root)
    /\ Len(f) > Len(Root) + 1
    /\ f[Len(Root) + 1] \in {<<"target">>, <<".git">>}

NameMentionsProcessed(f) ==
    \E k \in DOMAIN file_name(f) : file_name(f)[k] = "_processed"

PathMentionsProcessed(f) ==
    \E i \in DOMAIN f : \E k \in DOMAIN f[i] : f[i][k] = "_processed"

PdfCount(f) == Cardinality({i \in DOMAIN pdf_log : pdf_log[i].input = f})
JsonCount(f) == Cardinality({i \in DOMAIN json_log : json_log[i] = f})
RecordCount(f) ==
    Cardinality({i \in DOMAIN unprocessed_files : unprocessed_files[i].path = f})

\* The file was processed, written for, or recorded as unprocessed.
Touched(f) ==
    \/ PdfCount(f) > 0
    \/ JsonCount(f) > 0
    \/ RecordCount(f) > 0
    \/ \E r \in resolved : r.input = f

\* The files a run of the tool has written, whole or in part.
Artifacts == {p \in DOMAIN fs : fs[p].kind \in {"array", "truncated"}}

\* Two .json files and nothing else: one that fails to parse, one that parses.
TwoJsonFiles(bad, good) ==
    /\ BatchMode
    /\ DOMAIN input_files = {bad, good}
    /\ bad # good
    /\ extension(bad) = ".json"
    /\ extension(good) = ".json"
    /\ input_files[bad].kind = "garbage"
    /\ input_files[good].kind = "document"

(***************************************************************************)
(* C3 as claimed.  In a batch run a failure on a single file (schema,      *)
(* read, write, creating its destination directory) becomes exactly one    *)
(* Unprocessed-File Record and never aborts the batch.                     *)
(***************************************************************************)
C3_AsClaimed ==
    BatchMode =>
        \A i \in DOMAIN errors :
            errors[i].what # "walk" =>
                /\ pc # "failed"
                /\ RecordCount(errors[i].path) = 1

C4_AttemptedOnceSoFar ==
    BatchMode =>
        /\ \A f \in DOMAIN input_files :
              PdfCount(f) <= 1 /\ JsonCount(f) <= 1 /\ RecordCount(f) <= 1
        /\ pc = "done" =>
              \A f \in DOMAIN input_files :
                 ~BelowTargetOrGit(f) =>
                    IF extension(f) = ".pdf"
                    THEN PdfCount(f) = 1 /\ JsonCount(f) = 0 /\ RecordCount(f) = 0
                    ELSE IF PathMentionsProcessed(f) THEN ~Touched(f)
                    ELSE IF extension(f) = ".json"
                    THEN /\ JsonCount(f) = 1
                         /\ PdfCount(f) = 0
                         /\ (\E r \in resolved :
                                /\ r.input = f
                                /\ \E i \in DOMAIN written : written[i] = r.dest)
                              # (RecordCount(f) = 1)
                    ELSE PdfCount(f) = 0 /\ JsonCount(f) = 0 /\ RecordCount(f) = 1

\* A bound on the steps a batch run has left.  An entry a loop has yet to
\* take counts once, and eight times more when taking it can create
\* directories or a file for the loops to come.
StillToGlob(stage, suffix) ==
    IF pc = stage THEN Pending(suffix)
    ELSE IF pc \in {"main", "walk", "pdf", "json", "other"} THEN GlobMatches(suffix)
    ELSE {}

StepsLeft ==
    (IF pc = "main" THEN 2 ELSE IF pc = "walk" THEN 1 ELSE 0)
    + (IF pc \in {"main", "walk", "pdf"}
       THEN 1 + 9 * Cardinality(StillToGlob("pdf", ".pdf")) ELSE 0)
    + (IF pc \in {"main", "walk", "pdf", "json"}
       THEN 1 + Cardinality(StillToGlob("json", ".json"))
              + 8 * Cardinality({p \in StillToGlob("json", ".json") :
                                    ~PathMentionsProcessed(p)})
       ELSE 0)
    + (IF pc \in {"main", "walk", "pdf", "json", "other"}
       THEN 1 + Cardinality(StillToGlob("other", "")) ELSE 0)

C6_AsClaimed ==
    BatchMode =>
        \A f \in DOMAIN input_files : BelowTargetOrGit(f) => ~Touched(f)

(***************************************************************************)
(* C6 as amended.  In a batch run no file under the target/ or .git/       *)
(* directory that lies directly in the input root is processed, written    *)
(* for or recorded as unprocessed.                                         *)
(***************************************************************************)
C6_RootTargetAndGitSkipped ==
    BatchMode =>
        \A f \in DOMAIN input_files \cup DOMAIN fs :
            BelowRootTargetOrGit(f) => ~Touched(f)

\* A run has ended that wrote for a.json and left target/a.json alone.
C6_Witness ==
    /\ BatchMode
    /\ pc = "done"
    /\ path_join(target_dir, << <<"a", ".json">> >>) \in DOMAIN input_files
    /\ input_files[path_join(target_dir, << <<"a", ".json">> >>)].kind = "document"
    /\ JsonCount(path_join(Root, << <<"a", ".json">> >>)) = 1
    /\ Len(written) = 1
    /\ ~Touched(path_join(target_dir, << <<"a", ".json">> >>))

(***************************************************************************)
(* C7 as claimed.  The destination resolved for a file, in single-file     *)
(* mode and in batch mode, for .json and for .pdf, whatever the output     *)
(* directory, is never the file's own path.                                *)
(***************************************************************************)
C7_AsClaimed == \A r \in resolved : r.dest # r.input

C10_OutputNeverConsumed ==
    BatchMode =>
        \A w \in Artifacts :
            /\ Len(file_name(w)) >= 2
            /\ SubSeq(file_name(w), Len(file_name(w)) - 1, Len(file_name(w)))
                  = <<"_processed", ".json">>
            /\ PdfCount(w) = 0
            /\ JsonCount(w) = 0
            /\ RecordCount(w) = 0

\* A run that wrote into its own input root has ended.
C10_Witness ==
    /\ BatchMode
    /\ pc = "done"
    /\ output_dir = Root
    /\ Len(written) = 1
    /\ written[1] \in Artifacts
    /\ starts_with(written[1], Root)
    /\ written[1] \notin DOMAIN input_files

=============================================================================
